---- MODULE Spec2Model ----
(***************************************************************************)
(* Model of src/app.py: the JSON-file record store (reservations, orders), *)
(* the submission handlers, the notification patch, the admin status and   *)
(* content handlers and the admin session gate.                            *)
(*                                                                         *)
(* A Python str is a sequence of one-character strings, so that strip()    *)
(* and lower() are computed and not assumed.  A JSON value is a record     *)
(* [t, v]: t is its type ("str", "num", "null") and v is what str(value)   *)
(* returns.  A payload is a function from the keys it holds to values.     *)
(***************************************************************************)
EXTENDS Integers, Sequences, FiniteSets, TLC

\* ---------------------------------------------------------------- bounds
NumWorkers == 2
MaxRecords == 2

Workers == 1..NumWorkers
Sessions == {"s1", "s2"}
Coll == {"reservations", "orders"}
NoOne == 0

\* ---------------------------------------------------------------- strings
Chr(s) == <<s>>
S_empty == <<>>
S_blank == <<" ", " ">>
S_a == <<"a">>
S_b_padded == <<" ", "b", " ">>
S_b == <<"b">>
S_new == <<"n", "e", "w">>
S_confirmed == <<"c", "o", "n", "f", "i", "r", "m", "e", "d">>
S_completed == <<"c", "o", "m", "p", "l", "e", "t", "e", "d">>
S_cancelled == <<"c", "a", "n", "c", "e", "l", "l", "e", "d">>
S_accepted == <<"a", "c", "c", "e", "p", "t", "e", "d">>
S_preparing == <<"p", "r", "e", "p", "a", "r", "i", "n", "g">>
S_ready == <<"r", "e", "a", "d", "y">>
S_Confirmed_padded == <<" ", "C", "o", "n", "f", "i", "r", "m", "e", "d">>
S_bogus == <<"x">>
S_None == <<"N", "o", "n", "e">>
S_7 == <<"7">>

IsSpace(ch) == ch \in {" ", "\t", "\n"}

RECURSIVE lstrip(_)
lstrip(s) == IF s # <<>> /\ IsSpace(Head(s)) THEN lstrip(Tail(s)) ELSE s

RECURSIVE rstrip(_)
rstrip(s) ==
  IF s # <<>> /\ IsSpace(s[Len(s)]) THEN rstrip(SubSeq(s, 1, Len(s) - 1)) ELSE s

\* str.strip()
strip(s) == rstrip(lstrip(s))

LowerChar(ch) ==
  CASE ch = "A" -> "a" [] ch = "C" -> "c" [] ch = "E" -> "e" [] ch = "G" -> "g"
    [] ch = "I" -> "i" [] ch = "N" -> "n" [] ch = "P" -> "p" [] ch = "R" -> "r"
    [] OTHER -> ch

\* str.lower()
lower(s) == [i \in 1..Len(s) |-> LowerChar(s[i])]

\* ---------------------------------------------------------------- JSON values
StrVal(s) == [t |-> "str", v |-> s]
NumVal(s) == [t |-> "num", v |-> s]
NullVal == [t |-> "null", v |-> S_None]

\* str(value)
py_str(val) == val.v

\* payload.get(field, "")
payload_get(payload, field) ==
  IF field \in DOMAIN payload THEN payload[field] ELSE StrVal(S_empty)

\* value.strip() raises AttributeError unless value is a str
CanStrip(val) == val.t = "str"

\* ---------------------------------------------------------------- payloads
Without(f, k) == [x \in (DOMAIN f) \ {k} |-> f[x]]
With(f, k, val) == [x \in (DOMAIN f) \cup {k} |-> IF x = k THEN val ELSE f[x]]
EmptyForm == [x \in {} |-> StrVal(S_empty)]

ReservationRequired ==
  <<"full_name", "email", "phone", "reservation_date", "reservation_time", "guests">>
OrderRequired == <<"full_name", "phone", "pickup_time", "order_details">>

required_fields(c) == IF c = "reservations" THEN ReservationRequired ELSE OrderRequired

BasePayload(c) ==
  [f \in {required_fields(c)[i] : i \in 1..Len(required_fields(c))} |->
     IF f = "full_name" THEN StrVal(S_b_padded) ELSE StrVal(S_a)]

\* The request bodies the clients send: the complete one (its full_name needs
\* trimming), JSON bodies with a number or a null where the code expects a str, and bodies
\* with one or two required fields absent, empty or blank.
Payloads(c) ==
  {BasePayload(c),
   With(BasePayload(c), "full_name", NumVal(S_7)),
   With(BasePayload(c), "notes", NullVal),
   With(BasePayload(c), "phone", StrVal(S_blank)),
   With(BasePayload(c), "phone", StrVal(S_empty)),
   Without(Without(BasePayload(c), "phone"), "full_name")}
  \cup {Without(BasePayload(c), required_fields(c)[i]) : i \in 1..Len(required_fields(c))}
  \cup (IF c = "reservations" THEN {With(BasePayload(c), "guests", NumVal(S_7))} ELSE {})

\* the bodies of the concurrent runs: complete, raising and incomplete
CorePayloads(c) ==
  {BasePayload(c), Without(BasePayload(c), "phone"),
   With(BasePayload(c), "full_name", NumVal(S_7))}

FieldMissing_unstripped(payload, field) == py_str(payload_get(payload, field)) = S_empty

\* for field in required_fields: if not str(payload.get(field, "")).strip(): return 400
FieldMissing(payload, field) == strip(py_str(payload_get(payload, field))) = S_empty

MissingIdx(c, payload) ==
  {i \in 1..Len(required_fields(c)) : FieldMissing(payload, required_fields(c)[i])}

Min(S) == CHOOSE x \in S : \A y \in S : x <= y
Max(S) == CHOOSE x \in S : \A y \in S : x >= y

first_missing(c, payload) == required_fields(c)[Min(MissingIdx(c, payload))]

\* ---------------------------------------------------------------- records
\* The fields the handler reads with payload[field].strip() or
\* payload.get(field, "").strip(): a non-str value raises AttributeError there.
StrippedFields(c) ==
  IF c = "reservations"
  THEN {"full_name", "email", "phone", "reservation_date", "reservation_time",
        "occasion", "notes"}
  ELSE {"full_name", "email", "phone", "pickup_time", "order_details", "notes"}

build_raises(c, payload) ==
  \E f \in StrippedFields(c) : ~CanStrip(payload_get(payload, f))

Stripped(payload, f) == strip(payload_get(payload, f).v)

NewNotification(t) == [sent |-> "null", error |-> "", updated_at |-> t]

reservation_record(payload, id, t) ==
  [id |-> id,
   full_name |-> Stripped(payload, "full_name"),
   email |-> Stripped(payload, "email"),
   phone |-> Stripped(payload, "phone"),
   reservation_date |-> Stripped(payload, "reservation_date"),
   reservation_time |-> Stripped(payload, "reservation_time"),
   guests |-> strip(py_str(payload["guests"])),
   occasion |-> Stripped(payload, "occasion"),
   notes |-> Stripped(payload, "notes"),
   status |-> S_new,
   created_at |-> t,
   email_notification |-> NewNotification(t)]

order_record(payload, id, t) ==
  [id |-> id,
   full_name |-> Stripped(payload, "full_name"),
   email |-> Stripped(payload, "email"),
   phone |-> Stripped(payload, "phone"),
   pickup_time |-> Stripped(payload, "pickup_time"),
   order_details |-> Stripped(payload, "order_details"),
   notes |-> Stripped(payload, "notes"),
   status |-> S_new,
   created_at |-> t,
   email_notification |-> NewNotification(t)]

build_record(c, payload, id, t) ==
  IF c = "reservations" THEN reservation_record(payload, id, t)
  ELSE order_record(payload, id, t)

Ids(records) == {records[i].id : i \in 1..Len(records)}

next_id_stale(records) == IF records = <<>> THEN 1 ELSE Max(Ids(records))

next_id(records) == IF records = <<>> THEN 1 ELSE Max(Ids(records)) + 1

\* the first row whose id matches, 0 when there is none (for row in records: ... break)
find_row(records, id) ==
  IF id \in Ids(records) THEN Min({i \in 1..Len(records) : records[i].id = id}) ELSE 0

\* the id of a stored row that int() does not accept (a non-numeric string,
\* null): int(row.get("id", 0)) raises ValueError or TypeError on it
BadId == -1
int_raises(row) == row.id = BadId

\* a scan for id with a bare int(row.get("id", 0)) reaches such a row before it
\* finds a match
scan_raises(records, id) ==
  \E i \in 1..Len(records) :
     int_raises(records[i]) /\ \A j \in 1..(i - 1) : records[j].id # id

persist_scan_unguarded(records, id) == scan_raises(records, id)

\* persist_email_status: except (TypeError, ValueError): continue
persist_scan_raises(records, id) == FALSE

patch_row_always_sent(row, sent, error, t) ==
  [row EXCEPT !.email_notification = [sent |-> "true", error |-> "", updated_at |-> t]]

\* row["email_notification"] = {"sent": sent, "error": "" if sent else error, ...}
patch_row(row, sent, error, t) ==
  [row EXCEPT !.email_notification =
     [sent |-> IF sent THEN "true" ELSE "false",
      error |-> IF sent THEN "" ELSE error,
      updated_at |-> t]]

set_row_status_resets(row, status) ==
  [row EXCEPT !.status = status,
              !.email_notification = [sent |-> "null", error |-> "", updated_at |-> 0]]

\* row["status"] = status
set_row_status(row, status) == [row EXCEPT !.status = status]

\* ---------------------------------------------------------------- status workflow
reservation_allowed == {S_new, S_confirmed, S_completed, S_cancelled}
order_allowed == {S_new, S_accepted, S_preparing, S_ready, S_completed, S_cancelled}
allowed_shared(c) == reservation_allowed \cup order_allowed

allowed(c) == IF c = "reservations" THEN reservation_allowed ELSE order_allowed

\* request.form.get("status", "new").strip().lower()
form_status(form) ==
  lower(strip(IF "status" \in DOMAIN form THEN form["status"].v ELSE S_new))

CoreStatusForms ==
  {With(EmptyForm, "status", StrVal(s)) : s \in {S_Confirmed_padded, S_preparing}}

StatusForms ==
  {EmptyForm} \cup
  {With(EmptyForm, "status", StrVal(s)) :
     s \in {S_confirmed, S_Confirmed_padded, S_preparing, S_bogus}}

\* ---------------------------------------------------------------- state
VARIABLES
  file,        \* file[c]: the JSON file of collection c, [ok, rows]; ok = FALSE while
               \* it holds no complete JSON document (truncated by open("w"), or cut short)
  content,     \* the content file, [ok, doc]
  write_lock,  \* the worker holding write_lock, NoOne when free
  session,     \* session[s]: session.get("admin_authenticated") of client s
  pc,          \* pc[w]: where request worker w is in its handler
  req,         \* req[w]: the request worker w is handling
  loc,         \* loc[w]: the handler's local variables
  out,         \* the response the last step sent, with its request (NoOut: none)
  last,        \* history: last[c] is the last complete content of file[c]
  accepted,    \* history: accepted[c] counts the appends whose write_json returned
  legit        \* history: legit[s] iff s logged in with the admin password since its last logout

vars ==
  <<file, content, write_lock, session, pc, req, loc, out, last, accepted, legit>>

GoodFile(rows) == [ok |-> TRUE, rows |-> rows]
BrokenFile == [ok |-> FALSE, rows |-> <<>>]

NoDoc == [sections |-> {}, items |-> <<>>]
NoReq == [kind |-> "none", coll |-> "", sess |-> "", payload |-> EmptyForm, id |-> 0,
          doc |-> NoDoc, legit |-> FALSE]
\* recs: the records list in memory; id: the new record's id; saved: write_json has
\* returned for the append; sent, error: email_sent, email_error; status: the
\* normalised status of a status update; sends: history, the calls of
\* send_notification_email the request has made
NoLoc == [recs |-> <<>>, id |-> 0, saved |-> FALSE, sent |-> FALSE, error |-> "",
          status |-> S_empty, sends |-> 0]
Resp(code, msg) == [code |-> code, msg |-> msg, field |-> ""]
NoResp == Resp(0, "")
NoOut == [req |-> NoReq, resp |-> NoResp, loc |-> NoLoc]

\* utc_now_iso(): the clock is read in whole seconds; the model's clock ticks
\* each time an append completes, so stamps are non-decreasing and later writes
\* can carry later stamps
utc_now_iso == accepted["reservations"] + accepted["orders"]

\* ---------------------------------------------------------------- handler plumbing
Goto(w, label) == pc' = [pc EXCEPT ![w] = label] /\ out' = NoOut

\* the handler of request rq returns (or an exception leaves it) with response r;
\* the worker is free for the next request
Finish(w, rq, r) ==
  /\ pc' = [pc EXCEPT ![w] = "idle"]
  /\ req' = [req EXCEPT ![w] = NoReq]
  /\ loc' = [loc EXCEPT ![w] = NoLoc]
  /\ out' = [req |-> rq, resp |-> r, loc |-> loc[w]]

LockFree_unguarded == TRUE

\* with write_lock: entered only while no other thread holds it
LockFree == write_lock = NoOne

Acquire(w) == LockFree /\ write_lock' = w
Release_leaks(w) == write_lock' = write_lock

\* leaving the with block, by its end, a return or an exception
Release(w) == write_lock' = NoOne
\* the with block is entered and left in the same step
AcquireRelease(w) == LockFree /\ write_lock' = NoOne

\* an unhandled exception: Flask answers 500 through handle_500
InternalError == Resp(500, "Internal server error")

\* write_json, first half: path.open("w") truncates the file (or raises OSError
\* and leaves it as it was)
open_truncates(c) == file' = [file EXCEPT ![c] = BrokenFile]

\* write_json, second half: json.dump writes the document and the file is closed
dump_writes(c, rows) ==
  /\ file' = [file EXCEPT ![c] = GoodFile(rows)]
  /\ last' = [last EXCEPT ![c] = rows]

\* ---------------------------------------------------------------- submissions
SaveError == Resp(500, "Unable to save")

InAppend ==
  {v \in Workers : pc[v] \in {"append_lock", "append_open", "append_dump"}}

SubmitReq(c, payload) == [NoReq EXCEPT !.kind = "submit", !.coll = c, !.payload = payload]

\* api_create_reservation / api_create_order: parse the payload, check the
\* required fields
submit_validate(w, c, payload) ==
  /\ pc[w] = "idle"
  /\ IF MissingIdx(c, payload) # {}
     THEN /\ Finish(w, SubmitReq(c, payload),
                    [code |-> 400, msg |-> "Missing required field",
                     field |-> first_missing(c, payload)])
     ELSE /\ accepted["reservations"] + accepted["orders"] + Cardinality(InAppend)
               < MaxRecords
          /\ req' = [req EXCEPT ![w] = SubmitReq(c, payload)]
          /\ Goto(w, "append_lock")
          /\ UNCHANGED loc
  /\ UNCHANGED <<file, content, write_lock, session, last, accepted, legit>>

\* with write_lock: load_reservations() raises OSError: caught, 500 "Unable to save"
submit_load_oserror(w) ==
  /\ pc[w] = "append_lock"
  /\ AcquireRelease(w)
  /\ Finish(w, req[w], SaveError)
  /\ UNCHANGED <<file, content, session, last, accepted, legit>>

\* json.load raises JSONDecodeError on an incomplete file, or building the record
\* raises AttributeError: neither is an OSError, so the handler does not catch it
submit_load_raises(w) ==
  /\ pc[w] = "append_lock"
  /\ \/ ~file[req[w].coll].ok
     \/ build_raises(req[w].coll, req[w].payload)
  /\ AcquireRelease(w)
  /\ Finish(w, req[w], InternalError)
  /\ UNCHANGED <<file, content, session, last, accepted, legit>>

\* with write_lock: records = load(); record = {...}; records.append(record)
submit_load(w) ==
  /\ pc[w] = "append_lock"
  /\ Acquire(w)
  /\ file[req[w].coll].ok
  /\ ~build_raises(req[w].coll, req[w].payload)
  /\ LET records == file[req[w].coll].rows
         record == build_record(req[w].coll, req[w].payload, next_id(records),
                                utc_now_iso)
     IN loc' = [loc EXCEPT ![w].recs = Append(records, record), ![w].id = record.id]
  /\ Goto(w, "append_open")
  /\ UNCHANGED <<file, content, session, req, last, accepted, legit>>

submit_open(w) ==
  /\ pc[w] = "append_open"
  /\ open_truncates(req[w].coll)
  /\ Goto(w, "append_dump")
  /\ UNCHANGED <<content, write_lock, session, req, loc, last,
                 accepted, legit>>

submit_open_oserror(w) ==
  /\ pc[w] = "append_open"
  /\ Release(w)
  /\ Finish(w, req[w], SaveError)
  /\ UNCHANGED <<file, content, session, last, accepted, legit>>

submit_dump(w) ==
  /\ pc[w] = "append_dump"
  /\ dump_writes(req[w].coll, loc[w].recs)
  /\ accepted' = [accepted EXCEPT ![req[w].coll] = @ + 1]
  /\ loc' = [loc EXCEPT ![w].saved = TRUE]
  /\ Release(w)
  /\ Goto(w, "send")
  /\ UNCHANGED <<content, session, req, legit>>

submit_dump_oserror_sends(w) ==
  /\ pc[w] = "append_dump"
  /\ Release(w)
  /\ Goto(w, "send")
  /\ UNCHANGED <<file, content, session, req, loc, last, accepted, legit>>

\* json.dump raises OSError (disk full): the file stays cut short
submit_dump_oserror(w) ==
  /\ pc[w] = "append_dump"
  /\ Release(w)
  /\ Finish(w, req[w], SaveError)
  /\ UNCHANGED <<file, content, session, last, accepted, legit>>

\* send_notification_email: (True, ""), or (False, error) when the SMTP settings
\* are missing or the delivery raised
Delivered == [sent |-> TRUE, error |-> ""]
SendOutcomes ==
  {Delivered,
   [sent |-> FALSE, error |-> "Missing SMTP config"],
   [sent |-> FALSE, error |-> "smtp error"]}

submit_send(w, outcome) ==
  /\ pc[w] = "send"
  /\ loc' = [loc EXCEPT ![w].sent = outcome.sent, ![w].error = outcome.error,
                        ![w].sends = @ + 1]
  /\ Goto(w, "patch_lock")
  /\ UNCHANGED <<file, content, write_lock, session, req, last,
                 accepted, legit>>

\* the response after persist_email_status returned or its OSError was logged
SubmitResponse(w) ==
  IF loc[w].sent THEN Resp(201, "received") ELSE Resp(201, "saved, email failed")

\* read_json raises OSError inside persist_email_status: logged by the handler
patch_load_oserror(w) ==
  /\ pc[w] = "patch_lock"
  /\ AcquireRelease(w)
  /\ Finish(w, req[w], SubmitResponse(w))
  /\ UNCHANGED <<file, content, session, last, accepted, legit>>

\* JSONDecodeError is not an OSError: it leaves persist_email_status and the handler
patch_load_raises(w) ==
  /\ pc[w] = "patch_lock"
  /\ ~file[req[w].coll].ok
  /\ AcquireRelease(w)
  /\ Finish(w, req[w], InternalError)
  /\ UNCHANGED <<file, content, session, last, accepted, legit>>

patch_load_stale(w) ==
  /\ pc[w] = "patch_lock"
  /\ file[req[w].coll].ok
  /\ Acquire(w)
  /\ LET records == loc[w].recs
         i == find_row(records, loc[w].id)
     IN loc' = [loc EXCEPT ![w].recs =
                  [records EXCEPT ![i] =
                     patch_row(records[i], loc[w].sent, loc[w].error, utc_now_iso)]]
  /\ Goto(w, "patch_open")
  /\ UNCHANGED <<file, content, session, req, last, accepted, legit>>

\* persist_email_status: with write_lock: find the row and patch it; when no row
\* has the id nothing is written
patch_load(w) ==
  /\ pc[w] = "patch_lock"
  /\ file[req[w].coll].ok
  /\ LET records == file[req[w].coll].rows
         i == find_row(records, loc[w].id)
     IN IF persist_scan_raises(records, loc[w].id)
        THEN /\ AcquireRelease(w)
             /\ Finish(w, req[w], InternalError)
        ELSE IF i # 0
        THEN /\ Acquire(w)
             /\ loc' = [loc EXCEPT ![w].recs =
                          [records EXCEPT ![i] =
                             patch_row(records[i], loc[w].sent, loc[w].error, utc_now_iso)]]
             /\ Goto(w, "patch_open")
             /\ UNCHANGED req
        ELSE /\ AcquireRelease(w)
             /\ Finish(w, req[w], SubmitResponse(w))
  /\ UNCHANGED <<file, content, session, last, accepted, legit>>

patch_open(w) ==
  /\ pc[w] = "patch_open"
  /\ open_truncates(req[w].coll)
  /\ Goto(w, "patch_dump")
  /\ UNCHANGED <<content, write_lock, session, req, loc, last,
                 accepted, legit>>

patch_open_oserror(w) ==
  /\ pc[w] = "patch_open"
  /\ Release(w)
  /\ Finish(w, req[w], SubmitResponse(w))
  /\ UNCHANGED <<file, content, session, last, accepted, legit>>

patch_dump(w) ==
  /\ pc[w] = "patch_dump"
  /\ dump_writes(req[w].coll, loc[w].recs)
  /\ Release(w)
  /\ Finish(w, req[w], SubmitResponse(w))
  /\ UNCHANGED <<content, session, accepted, legit>>

patch_dump_oserror(w) ==
  /\ pc[w] = "patch_dump"
  /\ Release(w)
  /\ Finish(w, req[w], SubmitResponse(w))
  /\ UNCHANGED <<file, content, session, last, accepted, legit>>

\* the steps of a submission after its validation, while no file operation fails
submit_steps(w, outcomes) ==
  \/ submit_load(w)
  \/ submit_open(w)
  \/ submit_dump(w)
  \/ \E outcome \in outcomes : submit_send(w, outcome)
  \/ patch_load(w)
  \/ patch_open(w)
  \/ patch_dump(w)

\* the steps in which a file operation of a submission fails
submit_faults(w) ==
  \/ submit_load_oserror(w)
  \/ submit_open_oserror(w)
  \/ submit_dump_oserror(w)
  \/ patch_load_oserror(w)
  \/ patch_load_raises(w)
  \/ patch_open_oserror(w)
  \/ patch_dump_oserror(w)

api_create_reservation(w, bodies) ==
  \E payload \in bodies : submit_validate(w, "reservations", payload)

api_create_order(w, bodies) ==
  \E payload \in bodies : submit_validate(w, "orders", payload)

\* ---------------------------------------------------------------- admin session
\* os.getenv("ADMIN_PASSWORD", "change-this-admin-password")
expected_password == "change-this-admin-password"
Passwords == {"", "guess", expected_password}

is_admin_authenticated(s) == session[s]

login_accepts_any(submitted_password) == submitted_password # ""

\* POST /admin/login: the session is marked only for the non-empty expected password
login_accepts(submitted_password) ==
  submitted_password # "" /\ submitted_password = expected_password

admin_login(s, submitted_password) ==
  /\ ~is_admin_authenticated(s)
  /\ session' = [session EXCEPT ![s] = login_accepts(submitted_password)]
  /\ legit' = [legit EXCEPT ![s] = (submitted_password = expected_password)]
  /\ out' = NoOut
  /\ UNCHANGED <<file, content, write_lock, pc, req, loc, last, accepted>>

\* GET /admin/logout: session.clear()
admin_logout(s) ==
  /\ session' = [session EXCEPT ![s] = FALSE]
  /\ legit' = [legit EXCEPT ![s] = FALSE]
  /\ out' = NoOut
  /\ UNCHANGED <<file, content, write_lock, pc, req, loc, last, accepted>>

\* admin_required: redirect(url_for("admin_login")) unless authenticated
LoginRedirect == Resp(302, "admin_login")
Flash(msg) == Resp(302, msg)

\* ---------------------------------------------------------------- status updates
StatusReq(s, c, id, form) ==
  [NoReq EXCEPT !.kind = "status", !.coll = c, !.sess = s, !.payload = form, !.id = id,
                !.legit = legit[s]]

\* admin_update_reservation_status / admin_update_order_status up to the lock
status_begin(w, s, c, id, form) ==
  /\ pc[w] = "idle"
  /\ IF ~is_admin_authenticated(s)
     THEN Finish(w, StatusReq(s, c, id, form), LoginRedirect)
     ELSE IF form_status(form) \notin allowed(c)
     THEN Finish(w, StatusReq(s, c, id, form), Flash("Invalid status"))
     ELSE /\ req' = [req EXCEPT ![w] = StatusReq(s, c, id, form)]
          /\ loc' = [loc EXCEPT ![w].status = form_status(form)]
          /\ Goto(w, "status_lock")
  /\ UNCHANGED <<file, content, write_lock, session, last, accepted, legit>>

\* with write_lock: rows = load(); the first row with the id gets the status
status_load(w) ==
  /\ pc[w] = "status_lock"
  /\ file[req[w].coll].ok
  /\ ~scan_raises(file[req[w].coll].rows, req[w].id)
  /\ find_row(file[req[w].coll].rows, req[w].id) # 0
  /\ Acquire(w)
  /\ LET records == file[req[w].coll].rows
         i == find_row(records, req[w].id)
     IN loc' = [loc EXCEPT ![w].recs =
                  [records EXCEPT ![i] = set_row_status(records[i], loc[w].status)]]
  /\ Goto(w, "status_open")
  /\ UNCHANGED <<file, content, session, req, last, accepted, legit>>

\* no row has the id: nothing is written, "not found" is flashed
status_not_found(w) ==
  /\ pc[w] = "status_lock"
  /\ file[req[w].coll].ok
  /\ ~scan_raises(file[req[w].coll].rows, req[w].id)
  /\ find_row(file[req[w].coll].rows, req[w].id) = 0
  /\ AcquireRelease(w)
  /\ Finish(w, req[w], Flash("not found"))
  /\ UNCHANGED <<file, content, session, last, accepted, legit>>

\* int(row.get("id", 0)) raises on a row scanned before a match: the admin
\* handlers catch nothing
status_id_raises(w) ==
  /\ pc[w] = "status_lock"
  /\ file[req[w].coll].ok
  /\ scan_raises(file[req[w].coll].rows, req[w].id)
  /\ AcquireRelease(w)
  /\ Finish(w, req[w], InternalError)
  /\ UNCHANGED <<file, content, session, last, accepted, legit>>

\* read_json raises (OSError, or JSONDecodeError on an incomplete file): the
\* admin handlers catch nothing
status_load_raises(w) ==
  /\ pc[w] = "status_lock"
  /\ AcquireRelease(w)
  /\ Finish(w, req[w], InternalError)
  /\ UNCHANGED <<file, content, session, last, accepted, legit>>

status_open(w) ==
  /\ pc[w] = "status_open"
  /\ open_truncates(req[w].coll)
  /\ Goto(w, "status_dump")
  /\ UNCHANGED <<content, write_lock, session, req, loc, last, accepted, legit>>

status_open_oserror(w) ==
  /\ pc[w] = "status_open"
  /\ Release(w)
  /\ Finish(w, req[w], InternalError)
  /\ UNCHANGED <<file, content, session, last, accepted, legit>>

status_dump(w) ==
  /\ pc[w] = "status_dump"
  /\ dump_writes(req[w].coll, loc[w].recs)
  /\ Release(w)
  /\ Finish(w, req[w], Flash("status updated"))
  /\ UNCHANGED <<content, session, accepted, legit>>

status_dump_oserror(w) ==
  /\ pc[w] = "status_dump"
  /\ Release(w)
  /\ Finish(w, req[w], InternalError)
  /\ UNCHANGED <<file, content, session, last, accepted, legit>>

status_steps(w) ==
  \/ status_load(w)
  \/ status_not_found(w)
  \/ status_open(w)
  \/ status_dump(w)

status_faults(w) ==
  \/ status_load_raises(w)
  \/ status_open_oserror(w)
  \/ status_dump_oserror(w)

admin_update_reservation_status(w, s, forms) ==
  \E id \in 1..(MaxRecords + 1), form \in forms :
     status_begin(w, s, "reservations", id, form)

admin_update_order_status(w, s, forms) ==
  \E id \in 1..(MaxRecords + 1), form \in forms :
     status_begin(w, s, "orders", id, form)

\* ---------------------------------------------------------------- content
RequiredSections == {"brand", "hero", "menu", "footer"}
FormSections ==
  {"brand", "hero", "about", "menu", "videos", "booking", "ordering", "footer"}

Item(name, price) == [name |-> name, price |-> price]
Doc(sections, items) == [sections |-> sections, items |-> items]

\* site/content-default.json
DocDefault == Doc(RequiredSections, <<Item(S_a, S_7)>>)

\* validate_content: the four sections, a non-empty menu, a name and a price per item
validate_content(doc) ==
  IF ~(RequiredSections \subseteq doc.sections) THEN "Missing section"
  ELSE IF doc.items = <<>> THEN "Menu must include at least one item"
  ELSE IF \E i \in 1..Len(doc.items) : doc.items[i].name = S_empty
       THEN "Each menu item requires a name"
  ELSE IF \E i \in 1..Len(doc.items) : doc.items[i].price = S_empty
       THEN "Each menu item requires a price"
  ELSE "ok"

\* build_content_from_form: every section is built; a menu row is stripped and
\* skipped when it is empty
RECURSIVE build_menu_items(_)
build_menu_items(rows) ==
  IF rows = <<>> THEN <<>>
  ELSE LET name == strip(Head(rows).name)
           price == strip(Head(rows).price)
       IN (IF name = S_empty /\ price = S_empty THEN <<>> ELSE <<Item(name, price)>>)
          \o build_menu_items(Tail(rows))

build_content_from_form(rows) == Doc(FormSections, build_menu_items(rows))

\* the menu rows of the posted forms
ContentForms ==
  {<<Item(S_b_padded, S_a)>>, <<Item(S_blank, S_empty)>>, <<Item(S_a, S_blank)>>}

\* content_json of POST /admin/content: blank, not JSON, or a document
ContentJson ==
  {[t |-> "blank", doc |-> NoDoc], [t |-> "invalid", doc |-> NoDoc]}
  \cup {[t |-> "json", doc |-> d] :
          d \in {Doc(RequiredSections, <<Item(S_b, S_7)>>),
                 Doc(RequiredSections \ {"footer"}, <<Item(S_b, S_7)>>),
                 Doc(RequiredSections, <<>>),
                 Doc(RequiredSections, <<Item(S_b, S_empty)>>)}}

ContentReq(s, doc) ==
  [NoReq EXCEPT !.kind = "content", !.sess = s, !.doc = doc, !.legit = legit[s]]

\* admin_update_content up to the lock
content_begin(w, s, raw) ==
  /\ pc[w] = "idle"
  /\ IF ~is_admin_authenticated(s)
     THEN Finish(w, ContentReq(s, raw.doc), LoginRedirect)
     ELSE IF raw.t = "blank"
     THEN Finish(w, ContentReq(s, raw.doc), Flash("Content JSON cannot be empty"))
     ELSE IF raw.t = "invalid"
     THEN Finish(w, ContentReq(s, raw.doc), Flash("Invalid JSON"))
     ELSE IF validate_content(raw.doc) # "ok"
     THEN Finish(w, ContentReq(s, raw.doc), Flash(validate_content(raw.doc)))
     ELSE /\ req' = [req EXCEPT ![w] = ContentReq(s, raw.doc)]
          /\ Goto(w, "content_lock")
          /\ UNCHANGED loc
  /\ UNCHANGED <<file, content, write_lock, session, last, accepted, legit>>

\* admin_update_content_form up to the lock
content_form_begin(w, s, rows) ==
  /\ pc[w] = "idle"
  /\ LET parsed_content == build_content_from_form(rows)
     IN IF ~is_admin_authenticated(s)
        THEN Finish(w, ContentReq(s, parsed_content), LoginRedirect)
        ELSE IF validate_content(parsed_content) # "ok"
        THEN Finish(w, ContentReq(s, parsed_content), Flash(validate_content(parsed_content)))
        ELSE /\ req' = [req EXCEPT ![w] = ContentReq(s, parsed_content)]
             /\ Goto(w, "content_lock")
             /\ UNCHANGED loc
  /\ UNCHANGED <<file, content, write_lock, session, last, accepted, legit>>

\* with write_lock: write_json(CONTENT_PATH, parsed_content), open("w")
content_open(w) ==
  /\ pc[w] = "content_lock"
  /\ Acquire(w)
  /\ content' = [ok |-> FALSE, doc |-> NoDoc]
  /\ Goto(w, "content_dump")
  /\ UNCHANGED <<file, session, req, loc, last, accepted, legit>>

content_open_oserror(w) ==
  /\ pc[w] = "content_lock"
  /\ AcquireRelease(w)
  /\ Finish(w, req[w], InternalError)
  /\ UNCHANGED <<file, content, session, last, accepted, legit>>

content_dump(w) ==
  /\ pc[w] = "content_dump"
  /\ content' = [ok |-> TRUE, doc |-> req[w].doc]
  /\ Release(w)
  /\ Finish(w, req[w], Flash("Website content updated"))
  /\ UNCHANGED <<file, session, last, accepted, legit>>

content_dump_oserror(w) ==
  /\ pc[w] = "content_dump"
  /\ Release(w)
  /\ Finish(w, req[w], InternalError)
  /\ UNCHANGED <<file, content, session, last, accepted, legit>>

admin_update_content(w, s) == \E raw \in ContentJson : content_begin(w, s, raw)

admin_update_content_form(w, s) == \E rows \in ContentForms : content_form_begin(w, s, rows)

content_steps(w) ==
  \/ content_open(w)
  \/ content_dump(w)

content_faults(w) ==
  \/ content_open_oserror(w)
  \/ content_dump_oserror(w)

\* GET /admin: the three files are read without the lock
admin_panel(w, s) ==
  /\ pc[w] = "idle"
  /\ Finish(w, [NoReq EXCEPT !.kind = "panel", !.sess = s, !.legit = legit[s]],
            IF ~is_admin_authenticated(s) THEN LoginRedirect
            ELSE IF content.ok /\ \A c \in Coll : file[c].ok THEN Resp(200, "admin_panel")
            ELSE InternalError)
  /\ UNCHANGED <<file, content, write_lock, session, last, accepted, legit>>

\* GET /api/content
api_content(w) ==
  /\ pc[w] = "idle"
  /\ Finish(w, [NoReq EXCEPT !.kind = "get_content"],
            IF content.ok THEN Resp(200, "content") ELSE InternalError)
  /\ UNCHANGED <<file, content, write_lock, session, last, accepted, legit>>

\* init_storage(): the three files exist, both collections are []
Init ==
  /\ file = [c \in Coll |-> GoodFile(<<>>)]
  /\ content = [ok |-> TRUE, doc |-> DocDefault]
  /\ write_lock = NoOne
  /\ session = [s \in Sessions |-> FALSE]
  /\ pc = [w \in Workers |-> "idle"]
  /\ req = [w \in Workers |-> NoReq]
  /\ loc = [w \in Workers |-> NoLoc]
  /\ out = NoOut
  /\ last = [c \in Coll |-> <<>>]
  /\ accepted = [c \in Coll |-> 0]
  /\ legit = [s \in Sessions |-> FALSE]

\* ---------------------------------------------------------------- specifications
AllIdle == \A w \in Workers : pc[w] = "idle"

\* Concurrent submissions, no file operation fails.
NextSubmit ==
  \E w \in Workers :
     \/ api_create_reservation(w, CorePayloads("reservations"))
     \/ api_create_order(w, CorePayloads("orders"))
     \/ submit_load_raises(w)
     \/ submit_steps(w, SendOutcomes)

SpecSubmit == Init /\ [][NextSubmit]_vars

\* The record store: concurrent submissions and status updates of an admin
\* client, no file operation fails.
NextStore ==
  \/ \E submitted_password \in Passwords : admin_login("s1", submitted_password)
  \/ \E w \in Workers :
       \/ api_create_reservation(w, {BasePayload("reservations")})
       \/ api_create_order(w, {BasePayload("orders")})
       \/ submit_steps(w, SendOutcomes)
       \/ admin_update_reservation_status(w, "s1", CoreStatusForms)
       \/ admin_update_order_status(w, "s1", CoreStatusForms)
       \/ status_steps(w)

SpecStore == Init /\ [][NextStore]_vars

\* The record store with failing file operations.
NextFaults ==
  \/ \E submitted_password \in Passwords : admin_login("s1", submitted_password)
  \/ \E w \in Workers :
       \/ api_create_reservation(w, {BasePayload("reservations")})
       \/ submit_load_raises(w)
       \/ submit_steps(w, SendOutcomes)
       \/ submit_faults(w)
       \/ admin_update_reservation_status(w, "s1", CoreStatusForms)
       \/ status_steps(w)
       \/ status_faults(w)
       \/ admin_panel(w, "s1")

SpecFaults == Init /\ [][NextFaults]_vars

\* Reservations, their status updates and the admin panel reading the files,
\* concurrently; no file operation fails.
NextWindow ==
  \/ \E submitted_password \in Passwords : admin_login("s1", submitted_password)
  \/ \E w \in Workers :
       \/ api_create_reservation(w, {BasePayload("reservations")})
       \/ submit_steps(w, SendOutcomes)
       \/ admin_update_reservation_status(w, "s1", CoreStatusForms)
       \/ status_steps(w)
       \/ admin_panel(w, "s1")

SpecWindow == Init /\ [][NextWindow]_vars

\* persist_email_status(path, record_id, sent, error) as the handlers call it,
\* for any record_id
persist_email_status(w, c, record_id, outcome) ==
  /\ pc[w] = "idle"
  /\ req' = [req EXCEPT ![w] = SubmitReq(c, BasePayload(c))]
  /\ loc' = [loc EXCEPT ![w] = [NoLoc EXCEPT !.id = record_id, !.saved = TRUE,
                                             !.sent = outcome.sent,
                                             !.error = outcome.error, !.sends = 1]]
  /\ Goto(w, "patch_lock")
  /\ UNCHANGED <<file, content, write_lock, session, last, accepted, legit>>

\* collection files as read_json can find them: rows the handlers wrote and
\* rows whose id is not numeric
StoredRow(c, id) == build_record(c, BasePayload(c), id, 0)
StoredCollections(c) ==
  {<<>>,
   <<StoredRow(c, 1)>>,
   <<StoredRow(c, BadId)>>,
   <<StoredRow(c, 1), StoredRow(c, BadId)>>,
   <<StoredRow(c, BadId), StoredRow(c, 2)>>}

InitStored ==
  /\ \E rows \in StoredCollections("reservations"), orders \in StoredCollections("orders") :
        /\ file = [c \in Coll |-> GoodFile(IF c = "reservations" THEN rows ELSE orders)]
        /\ last = [c \in Coll |-> IF c = "reservations" THEN rows ELSE orders]
  /\ content = [ok |-> TRUE, doc |-> DocDefault]
  /\ write_lock = NoOne
  /\ session = [s \in Sessions |-> FALSE]
  /\ pc = [w \in Workers |-> "idle"]
  /\ req = [w \in Workers |-> NoReq]
  /\ loc = [w \in Workers |-> NoLoc]
  /\ out = NoOut
  /\ accepted = [c \in Coll |-> 0]
  /\ legit = [s \in Sessions |-> FALSE]

\* Notification patches and status updates for any id, on stored collections.
NextNotFound ==
  \/ \E submitted_password \in Passwords : admin_login("s1", submitted_password)
  \/ \E w \in Workers :
       \/ \E c \in Coll, record_id \in 1..(MaxRecords + 1) :
            persist_email_status(w, c, record_id, Delivered)
       \/ patch_load(w)
       \/ patch_open(w)
       \/ patch_dump(w)
       \/ admin_update_reservation_status(w, "s1", CoreStatusForms)
       \/ admin_update_order_status(w, "s1", CoreStatusForms)
       \/ status_steps(w)
       \/ status_id_raises(w)

SpecNotFound == InitStored /\ [][NextNotFound]_vars

\* Submissions with every request body, one request at a time.
NextInputs ==
  \/ /\ AllIdle
     /\ \/ api_create_reservation(1, Payloads("reservations"))
        \/ api_create_order(1, Payloads("orders"))
  \/ submit_load_raises(1)
  \/ submit_steps(1, SendOutcomes)

SpecInputs == Init /\ [][NextInputs]_vars

\* Concurrent reservation requests, valid and not, with failing file operations.
NextNotify ==
  \E w \in Workers :
     \/ api_create_reservation(w, CorePayloads("reservations"))
     \/ submit_load_raises(w)
     \/ submit_steps(w, SendOutcomes)
     \/ submit_faults(w)

SpecNotify == Init /\ [][NextNotify]_vars

\* The admin client: sessions, status updates with every form, content updates;
\* one request at a time.
NextAdmin ==
  \/ \E s \in Sessions :
       \/ \E submitted_password \in Passwords : admin_login(s, submitted_password)
       \/ admin_logout(s)
  \/ /\ AllIdle
     /\ \/ api_create_reservation(1, {BasePayload("reservations")})
        \/ api_create_order(1, {BasePayload("orders")})
        \/ api_content(1)
        \/ \E s \in Sessions :
             \/ admin_update_reservation_status(1, s, StatusForms)
             \/ admin_update_order_status(1, s, StatusForms)
             \/ admin_update_content(1, s)
             \/ admin_update_content_form(1, s)
             \/ admin_panel(1, s)
  \/ submit_steps(1, {Delivered})
  \/ status_steps(1)
  \/ content_steps(1)
  \/ content_faults(1)

SpecAdmin == Init /\ [][NextAdmin]_vars

\* The whole program: every handler on every worker.
Next ==
  \/ \E s \in Sessions :
       \/ \E submitted_password \in Passwords : admin_login(s, submitted_password)
       \/ admin_logout(s)
  \/ \E w \in Workers :
       \/ api_create_reservation(w, Payloads("reservations"))
       \/ api_create_order(w, Payloads("orders"))
       \/ api_content(w)
       \/ submit_load_raises(w)
       \/ submit_steps(w, SendOutcomes)
       \/ submit_faults(w)
       \/ status_steps(w)
       \/ status_faults(w)
       \/ content_steps(w)
       \/ content_faults(w)
       \/ \E s \in Sessions :
            \/ admin_update_reservation_status(w, s, StatusForms)
            \/ admin_update_order_status(w, s, StatusForms)
            \/ admin_update_content(w, s)
            \/ admin_update_content_form(w, s)
            \/ admin_panel(w, s)

Spec == Init /\ [][Next]_vars

\* ---------------------------------------------------------------- properties
\* a write_json on file c has truncated the file and not yet written it
WriteInProgress(c) ==
  \E w \in Workers :
     req[w].coll = c /\ pc[w] \in {"append_dump", "patch_dump", "status_dump"}

IdsInOrder(rows) == [i \in 1..Len(rows) |-> rows[i].id]
OneTo(n) == [i \in 1..n |-> i]

\* C1: however the steps of concurrent submissions to a collection interleave,
\* once no write is in progress the collection holds one record per append that
\* completed, and their ids are exactly 1..N: no id twice, no record lost.
C1_ConcurrentAppends ==
  \A c \in Coll :
     ~WriteInProgress(c) =>
        /\ file[c].ok
        /\ Len(file[c].rows) = accepted[c]
        /\ IdsInOrder(file[c].rows) = OneTo(accepted[c])
        /\ \A w \in Workers :
              req[w].coll = c /\ loc[w].saved => loc[w].id \in Ids(file[c].rows)

\* every worker has a reservation in flight at once, and all of them are stored
C1_Witness ==
  /\ \A w \in Workers : pc[w] = "send" /\ req[w].coll = "reservations"
  /\ accepted["reservations"] = NumWorkers
  /\ IdsInOrder(file["reservations"].rows) = OneTo(NumWorkers)

\* C2: the append that completes on collection c stores, after the records the
\* collection held, one record whose id is max(ids held) + 1 (1 when it held
\* none), which is its position: the ids are 1, 2, ... in the order of the
\* appends; the other collection is not touched.
C2_NextIdSequential ==
  [][\A c \in Coll :
       accepted'[c] # accepted[c] =>
          /\ file'[c].ok
          /\ Len(file'[c].rows) = Len(last[c]) + 1
          /\ SubSeq(file'[c].rows, 1, Len(last[c])) = last[c]
          /\ LET id == file'[c].rows[Len(last[c]) + 1].id
             IN /\ id = IF last[c] = <<>> THEN 1 ELSE Max(Ids(last[c])) + 1
                /\ id = Len(last[c]) + 1
                /\ id = accepted'[c]
          /\ \A d \in Coll \ {c} : file'[d] = file[d]]_vars

\* both collections have had an append, each numbered from 1
C2_Witness ==
  /\ accepted["reservations"] = 1 /\ accepted["orders"] = 1
  /\ IdsInOrder(file["reservations"].rows) = <<1>>
  /\ IdsInOrder(file["orders"].rows) = <<1>>

\* the same record but for the two fields that are patched in place
SameRecord(a, b) ==
  [a EXCEPT !.status = b.status, !.email_notification = b.email_notification] = b

\* C3: whatever step is taken, once no write is in progress the collection
\* still holds every record it held, at the same position, and is one record
\* longer exactly when an append completed. Violated: a write that fails after
\* open("w") leaves the file without any record.
C3_AppendOnly ==
  [][\A c \in Coll :
       ~WriteInProgress(c)' =>
          /\ file'[c].ok
          /\ Len(file'[c].rows) =
                IF accepted'[c] # accepted[c] THEN Len(last[c]) + 1 ELSE Len(last[c])
          /\ \A i \in 1..Len(last[c]) :
                /\ i <= Len(file'[c].rows)
                /\ SameRecord(last[c][i], file'[c].rows[i])]_vars

\* C4: a submission whose record was written answers 201 and its record is in
\* the collection, whatever the notifier and the patch did. Violated: the patch
\* fails after it truncated the file, or meets a file it cannot parse.
C4_SavedMeansSuccess ==
  out.req.kind = "submit" /\ out.loc.saved =>
     /\ out.resp.code = 201
     /\ ~WriteInProgress(out.req.coll) =>
           /\ file[out.req.coll].ok
           /\ out.loc.id \in Ids(file[out.req.coll].rows)

\* C9: a request that ends on a failed write leaves the collection file as it
\* was before the request, and the admin panel never fails to load a
\* collection. Violated: write_json truncates the file in place.
C9_AtomicPersist ==
  /\ (out.resp = SaveError \/ (out.req.kind = "status" /\ out.resp = InternalError)) =>
        file[out.req.coll] = GoodFile(last[out.req.coll])
  /\ (out.req.kind = "panel" => out.resp # InternalError)

\* the specification's reading of a missing field: absent, or a string that is
\* empty after trimming
SpecMissing(payload, field) ==
  \/ field \notin DOMAIN payload
  \/ payload[field].t = "str" /\ strip(payload[field].v) = S_empty

SpecRequired(c) ==
  IF c = "reservations"
  THEN <<"full_name", "email", "phone", "reservation_date", "reservation_time", "guests">>
  ELSE <<"full_name", "phone", "pickup_time", "order_details">>

SpecComplete(c, payload) ==
  \A i \in 1..Len(SpecRequired(c)) : ~SpecMissing(payload, SpecRequired(c)[i])

\* C10: a submission with every required field present and non-empty is
\* answered with success, while no file operation fails. Violated: a number
\* where the handler calls .strip(), or a null in an optional field.
C10_ValidAlwaysSucceeds ==
  out.req.kind = "submit" /\ SpecComplete(out.req.coll, out.req.payload) =>
     out.resp.code = 201

SpecFirstMissing(c, payload) ==
  SpecRequired(c)[Min({i \in 1..Len(SpecRequired(c)) : SpecMissing(payload, SpecRequired(c)[i])})]

\* C5: a submission with a required field absent or empty after trimming is
\* answered 400 naming the first such field; the step leaves both collections,
\* the content and the lock alone, the handler never loaded a collection nor
\* attempted a notification, and no such submission gets past validation.
C5_MissingFieldRejected ==
  [][/\ (out'.req.kind = "submit" /\ ~SpecComplete(out'.req.coll, out'.req.payload)) =>
          /\ out'.resp.code = 400
          /\ out'.resp.field = SpecFirstMissing(out'.req.coll, out'.req.payload)
          /\ out'.loc = NoLoc
          /\ file' = file /\ content' = content /\ write_lock' = write_lock
          /\ last' = last /\ accepted' = accepted
     /\ \A w \in Workers :
          req'[w].kind = "submit" => SpecComplete(req'[w].coll, req'[w].payload)]_vars

\* two fields are missing, the first is named, and a record is already stored
C5_Witness ==
  /\ out.req.kind = "submit"
  /\ "full_name" \notin DOMAIN out.req.payload
  /\ "phone" \notin DOMAIN out.req.payload
  /\ out.resp.code = 400 /\ out.resp.field = "full_name"
  /\ accepted[out.req.coll] = 1
  /\ Len(file[out.req.coll].rows) = 1

SpecAllowed(c) ==
  IF c = "reservations"
  THEN {S_new, S_confirmed, S_completed, S_cancelled}
  ELSE {S_new, S_accepted, S_preparing, S_ready, S_completed, S_cancelled}

\* the status as submitted, and as the handler reads it: trimmed, lower-cased,
\* "new" when the form has no status field
RawStatus(form) == form["status"].v
NormalStatus(form) ==
  lower(strip(IF "status" \in DOMAIN form THEN form["status"].v ELSE S_new))

\* C6 as stated, on the submitted value: a status update whose status is not
\* in the allowed set never gets past validation and is answered "Invalid
\* status" to an admin.
C6_RawStatusRejected ==
  /\ \A w \in Workers :
        req[w].kind = "status" /\ "status" \in DOMAIN req[w].payload =>
           RawStatus(req[w].payload) \in SpecAllowed(req[w].coll)
  /\ (/\ out.req.kind = "status" /\ out.req.legit
      /\ "status" \in DOMAIN out.req.payload
      /\ RawStatus(out.req.payload) \notin SpecAllowed(out.req.coll)) =>
        out.resp = Flash("Invalid status")

\* C6: a status update of an admin whose status, trimmed and lower-cased ("new"
\* when absent), is outside the allowed set of the collection is answered
\* "Invalid status" in a step that leaves both collections and the content
\* alone, and no such update gets past validation.
C6_InvalidStatusRejected ==
  [][/\ (/\ out'.req.kind = "status" /\ out'.req.legit
         /\ NormalStatus(out'.req.payload) \notin SpecAllowed(out'.req.coll)) =>
          /\ out'.resp = Flash("Invalid status")
          /\ out'.loc = NoLoc
          /\ file' = file /\ content' = content /\ last' = last
     /\ \A w \in Workers :
          req'[w].kind = "status" =>
             /\ NormalStatus(req'[w].payload) \in SpecAllowed(req'[w].coll)
             /\ loc'[w].status = NormalStatus(req'[w].payload)]_vars

\* 'preparing' is refused for a reservation that exists
C6_Witness ==
  /\ out.req.kind = "status" /\ out.req.coll = "reservations" /\ out.req.legit
  /\ "status" \in DOMAIN out.req.payload
  /\ RawStatus(out.req.payload) = S_preparing
  /\ out.req.id \in Ids(file["reservations"].rows)
  /\ out.resp = Flash("Invalid status")

\* C7: the write that completes a status update differs from the collection
\* before it only in the status of the record with the requested id, which is
\* the requested status; the write that completes a notification patch only in
\* the email_notification of the submission's record; an append keeps every
\* stored record as it was. The other collection and the content do not change.
C7_FrameOfInPlaceWrites ==
  [][\A c \in Coll :
       (file'[c].ok /\ ~file[c].ok) =>
          \E w \in Workers :
             /\ req[w].coll = c
             /\ pc[w] \in {"append_dump", "status_dump", "patch_dump"}
             /\ content' = content
             /\ \A d \in Coll \ {c} : file'[d] = file[d]
             /\ LET rows == file'[c].rows
                    old == last[c]
                IN CASE pc[w] = "append_dump" ->
                          Len(rows) = Len(old) + 1 /\ SubSeq(rows, 1, Len(old)) = old
                     [] pc[w] = "status_dump" ->
                          /\ Len(rows) = Len(old)
                          /\ \A i \in 1..Len(old) :
                                IF old[i].id = req[w].id
                                THEN rows[i] = [old[i] EXCEPT !.status = loc[w].status]
                                ELSE rows[i] = old[i]
                     [] pc[w] = "patch_dump" ->
                          /\ Len(rows) = Len(old)
                          /\ \A i \in 1..Len(old) :
                                IF old[i].id = loc[w].id
                                THEN rows[i] = [old[i] EXCEPT !.email_notification =
                                                  rows[i].email_notification]
                                ELSE rows[i] = old[i]]_vars

\* a reservation whose notification status had been patched was set to
\* "confirmed" while an order is stored too
C7_Witness ==
  /\ out.req.kind = "status" /\ out.req.coll = "reservations"
  /\ out.resp = Flash("status updated")
  /\ file["reservations"].ok /\ Len(file["reservations"].rows) = 1
  /\ file["reservations"].rows[1].status = S_confirmed
  /\ file["reservations"].rows[1].email_notification.sent = "false"
  /\ file["orders"].ok /\ Len(file["orders"].rows) = 1

\* C8: a status update or content update of a session that has not logged in
\* with the admin password since its last logout is answered with the redirect
\* to the login page in a step that changes no store, and never gets further.
C8_AdminOnly ==
  [][/\ (out'.req.kind \in {"status", "content"} /\ ~out'.req.legit) =>
          /\ out'.resp = LoginRedirect
          /\ out'.loc = NoLoc
          /\ file' = file /\ content' = content /\ last' = last
     /\ \A w \in Workers :
          req'[w].kind \in {"status", "content"} => req'[w].legit]_vars

\* a session that tried a wrong password is refused a valid update of a stored
\* record while another session is logged in
C8_Witness ==
  /\ out.req.kind = "status" /\ ~out.req.legit
  /\ out.resp = LoginRedirect
  /\ NormalStatus(out.req.payload) \in SpecAllowed(out.req.coll)
  /\ file[out.req.coll].ok
  /\ out.req.id \in Ids(file[out.req.coll].rows)
  /\ \E s \in Sessions : s # out.req.sess /\ session[s]

\* C11: a request calls send_notification_email at most once, and only when its
\* record has been written to the collection; a request answered 400, or 500
\* before its record was written, has made no call.
C11_WriteBeforeNotify ==
  [][/\ \A w \in Workers :
          /\ loc'[w].sends <= 1
          /\ loc'[w].sends > loc[w].sends =>
                /\ req[w].kind = "submit" /\ pc[w] = "send"
                /\ loc[w].sends = 0
                /\ loc[w].saved
                /\ loc[w].id \in Ids(last[req[w].coll])
     /\ out'.req.kind = "submit" =>
          /\ out'.loc.sends <= 1
          /\ (out'.loc.sends = 1 => out'.loc.saved)
          /\ (out'.resp.code = 400 \/ out'.resp = SaveError \/ ~out'.loc.saved) =>
                out'.loc.sends = 0 /\ out'.loc.error = ""]_vars

\* a request made its one call after its record was stored, while another
\* request was refused for a missing field or a failed write without a call
C11_Witness ==
  /\ \E w \in Workers :
        /\ pc[w] = "patch_lock" /\ loc[w].sends = 1 /\ loc[w].saved
        /\ loc[w].id \in Ids(file[req[w].coll].rows)
  /\ out.req.kind = "submit" /\ out.resp \in {SaveError, InternalError}
  /\ out.loc.sends = 0

\* the workers inside a read-modify-write cycle of a collection file
InCycle ==
  {w \in Workers : pc[w] \in {"append_open", "append_dump", "patch_open",
                              "patch_dump", "status_open", "status_dump"}}

\* C12: read-modify-write cycles do not interleave and lose no update. At most
\* one worker is inside a cycle, it holds the lock, and the file it read has
\* not been written since; the write that ends a cycle keeps every record the
\* latest completed write left, with its status unless the cycle is a status
\* update of that record and its email_notification unless it is the patch of
\* that record. So a status update that ran between a record's append and its
\* patch survives the patch, and no stored record is overwritten.
C12_NoLostUpdate ==
  [][/\ \A w \in InCycle :
          /\ InCycle = {w} /\ write_lock = w
          /\ file[req[w].coll] \in {GoodFile(last[req[w].coll]), BrokenFile}
          /\ Len(loc[w].recs) >= Len(last[req[w].coll])
     /\ \A c \in Coll :
          last'[c] # last[c] =>
             \E w \in InCycle :
                /\ req[w].coll = c
                /\ file'[c] = GoodFile(last'[c])
                /\ Len(last'[c]) >= Len(last[c])
                /\ \A i \in 1..Len(last[c]) :
                      /\ last'[c][i].id = last[c][i].id
                      /\ (last'[c][i].status # last[c][i].status =>
                             /\ pc[w] = "status_dump" /\ req[w].id = last[c][i].id
                             /\ last'[c][i].status = loc[w].status)
                      /\ (last'[c][i].email_notification # last[c][i].email_notification =>
                             pc[w] = "patch_dump" /\ loc[w].id = last[c][i].id)]_vars

\* the patch of a submission has landed and the record carries the status an
\* admin gave it after its append, next to a record another request appended
C12_Witness ==
  /\ out.req.kind = "submit" /\ out.resp.code = 201
  /\ file[out.req.coll].ok /\ Len(file[out.req.coll].rows) = 2
  /\ \E i \in 1..2 :
        /\ file[out.req.coll].rows[i].id = out.loc.id
        /\ file[out.req.coll].rows[i].status = S_confirmed
        /\ file[out.req.coll].rows[i].email_notification.sent # "null"

\* with requests rq, locals lc and positions p: some submission has stored
\* record id of collection c and not yet patched it
InWindow(rq, lc, p, c, id) ==
  \E w \in Workers :
     /\ rq[w].kind = "submit" /\ rq[w].coll = c
     /\ lc[w].saved /\ lc[w].id = id
     /\ p[w] \in {"send", "patch_lock", "patch_open"}

\* C13: an append stores its record with status "new" and sent = null; a
\* completed submission's record carries the outcome of its one delivery
\* attempt (true with no error, or false with the notifier's non-empty error);
\* in a readable collection sent is null exactly for the records between
\* their append and their patch.
C13_NotificationStatus ==
  [][/\ \A c \in Coll :
          accepted'[c] # accepted[c] =>
             LET row == file'[c].rows[Len(file'[c].rows)]
             IN row.status = S_new /\ row.email_notification.sent = "null"
     /\ (out'.req.kind = "submit" /\ out'.resp.code = 201) =>
          /\ out'.loc.sends = 1
          /\ out'.loc.sent \/ out'.loc.error # ""
          /\ file'[out'.req.coll].ok
          /\ \E i \in 1..Len(file'[out'.req.coll].rows) :
                LET row == file'[out'.req.coll].rows[i]
                IN /\ row.id = out'.loc.id
                   /\ row.email_notification.sent =
                         (IF out'.loc.sent THEN "true" ELSE "false")
                   /\ row.email_notification.error =
                         (IF out'.loc.sent THEN "" ELSE out'.loc.error)
     /\ \A c \in Coll :
          file'[c].ok =>
             \A i \in 1..Len(file'[c].rows) :
                LET row == file'[c].rows[i]
                IN /\ (row.email_notification.sent = "null") <=>
                         InWindow(req', loc', pc', c, row.id)
                   /\ (row.email_notification.sent = "false") =>
                         row.email_notification.error # ""
                   /\ (row.email_notification.sent = "true") =>
                         row.email_notification.error = ""]_vars

\* the admin panel has loaded a collection in which one record still has
\* sent = null and another carries the error of a failed delivery
C13_Witness ==
  /\ out.req.kind = "panel" /\ out.resp.code = 200
  /\ file["reservations"].ok
  /\ \E i, j \in 1..Len(file["reservations"].rows) :
        /\ file["reservations"].rows[i].email_notification.sent = "null"
        /\ file["reservations"].rows[j].email_notification.sent = "false"
        /\ file["reservations"].rows[j].email_notification.error # ""

\* the request of worker w targets an id that no row of its collection has
Unmatched(w, id) == id \notin Ids(file[req[w].coll].rows)

\* C14: a notification patch for an id that matches no row ends without an
\* error and without a write, whether or not rows with a non-numeric id are
\* stored, and such rows do not keep it from patching a row that matches; a
\* status update for an id that matches no row writes nothing and, in a
\* collection of numeric ids, flashes "not found"; a collection file changes
\* only in a cycle whose target id is stored.
C14_NotFoundNoOp ==
  [][/\ \A w \in Workers :
          /\ (pc[w] = "patch_lock" /\ pc'[w] # "patch_lock") =>
                IF Unmatched(w, loc[w].id)
                THEN /\ pc'[w] = "idle" /\ out'.resp.code = 201
                     /\ file' = file /\ last' = last /\ write_lock' = NoOne
                ELSE pc'[w] = "patch_open"
          /\ (pc[w] = "status_lock" /\ pc'[w] # "status_lock"
              /\ Unmatched(w, req[w].id)) =>
                /\ pc'[w] = "idle"
                /\ file' = file /\ last' = last /\ write_lock' = NoOne
                /\ (BadId \notin Ids(file[req[w].coll].rows) =>
                       out'.resp = Flash("not found"))
     /\ \A c \in Coll :
          file'[c] # file[c] =>
             \E w \in InCycle :
                /\ req[w].coll = c
                /\ (IF req[w].kind = "status" THEN req[w].id ELSE loc[w].id)
                      \in Ids(last[c])]_vars

\* a patch for an id that is not stored has ended normally on a collection
\* that holds a row with a non-numeric id next to a numeric one
C14_Witness ==
  /\ out.req.kind = "submit" /\ out.resp.code = 201
  /\ file[out.req.coll].ok /\ Len(file[out.req.coll].rows) = 2
  /\ BadId \in Ids(file[out.req.coll].rows)
  /\ out.loc.id \notin Ids(file[out.req.coll].rows)
  /\ file[out.req.coll].rows = last[out.req.coll]

\* the workers waiting to enter a with write_lock block
Waiting == {w \in Workers : pc[w] \in {"append_lock", "patch_lock", "status_lock"}}

\* C15: the lock is held exactly by the worker inside a read-modify-write
\* cycle, so never by a request that is sending its notification, has ended
\* (on any path, failures included) or is waiting; its holder can always take
\* its next step, and while it is free every waiting request can enter, however
\* long another request stays in its notifier call.
C15_LockDiscipline ==
  /\ \A w \in Workers : write_lock = w <=> w \in InCycle
  /\ \A w \in Workers : pc[w] \in {"send", "idle"} => write_lock # w
  /\ write_lock # NoOne =>
        ENABLED (submit_steps(write_lock, SendOutcomes) \/ status_steps(write_lock))
  /\ write_lock = NoOne =>
        \A v \in Waiting :
           ENABLED (\/ submit_steps(v, SendOutcomes) \/ submit_load_raises(v)
                    \/ submit_faults(v)
                    \/ status_steps(v) \/ status_faults(v))

\* one request is in its notifier call while another, holding the lock, is in
\* the middle of the write of its append
C15_Witness ==
  \E w, v \in Workers :
     /\ pc[w] = "send" /\ pc[v] = "append_dump"
     /\ write_lock = v
     /\ ~file[req[v].coll].ok

====
